---- MODULE Spec2Model ----
(***************************************************************************)
(* GitScope (gitscope.py): discovery of Git work trees under a base        *)
(* directory, per-repository status extraction (GitProject) and the        *)
(* progress heuristic, driven from the interactive menu.                    *)
(*                                                                         *)
(* Representation choices                                                   *)
(*  - A directory of the scanned tree is a record describing what GitPython *)
(*    and the filesystem answer for it (kind of repository, HEAD state,     *)
(*    README contents, outcome of the origin comparison, ...).              *)
(*  - Time is counted in ticks, TicksPerDay ticks to the day.  tipAge is    *)
(*    datetime.now() minus the tip commit's timestamp, in ticks; it is      *)
(*    negative for a commit stamped later than the local clock.             *)
(*  - progress is a float that is always a multiple of 0.5; the model       *)
(*    stores progress2 = 2 * progress, an integer.                          *)
(*  - A Python call either returns or raises: operators that model a call   *)
(*    return [raised |-> <exception name or "none">, ...].                  *)
(***************************************************************************)
EXTENDS Integers, Sequences, FiniteSets, TLC

VARIABLES
    tree,       \* the directories below base_dir, in rglob traversal order, as the latest scan found them
    projects,   \* GitScope.projects
    pc,         \* interactive_menu: "menu" (at the prompt), "exited" (break), "crashed" (uncaught exception)
    out,        \* what the last menu choice printed
    err,        \* the exception that left interactive_menu, "none" otherwise
    scans,      \* how many times choice '1' was taken (history, capped at MaxScans)
    cand,       \* extraction harness: the directory handed to GitProject(path)
    rec,        \* extraction harness: the outcome of GitProject(path)
    readmes,    \* README harness: a pair of READMEs
    scores      \* README harness: analyze_readme of each

vars == <<tree, projects, pc, out, err, scans, cand, rec, readmes, scores>>

(***************************************************************************)
(* Bounds of the model                                                      *)
(***************************************************************************)
MaxRepos == 2          \* directories in a scanned tree
MaxScans == 2          \* scans in one menu session
MaxCount == 1          \* commits counted on either side of origin/<branch>
TicksPerDay == 2       \* clock resolution
FutureTicks == 3       \* how far ahead of the clock a tip commit may be stamped
MaxAgeDays == 101      \* oldest tip commit, in days
SmallWords == 11       \* README word counts enumerated one by one in the extraction harness
MaxWords == 1010       \* README word counts enumerated in the README harness
MaxGap == 12           \* largest difference between the two word counts of the README harness

(***************************************************************************)
(* Program constants                                                        *)
(***************************************************************************)
ScoreCap == 100        \* min(100, ...) in analyze_readme
WordsPerPoint == 10    \* length // 10
AgeCap == 100          \* min(100, ...) in calculate_progress
AgeWeight == 2         \* days_since_last_commit * 2
DefaultDays == 1       \* days_since_last_commit = 1

Min(a, b) == IF a < b THEN a ELSE b

StatusKeys == {"active_branch", "is_dirty", "last_commit", "commits_behind", "commits_ahead"}

EmptyStatus == [k \in {} |-> TRUE]

None == << >>
Some(x) == <<x>>

(***************************************************************************)
(* Directories                                                              *)
(***************************************************************************)
Dir(kind, detached, dirty, tipAge, cmp, behind, ahead, readme, words, hist) ==
    [kind |-> kind, detached |-> detached, dirty |-> dirty, tipAge |-> tipAge,
     cmp |-> cmp, behind |-> behind, ahead |-> ahead,
     readme |-> readme, words |-> words, hist |-> hist]

\* kinds that never reach gather_info past its first test: only the README matters (unborn)
PlainDir(kind) == Dir(kind, FALSE, FALSE, 0, "ok", 0, 0, "absent", 0, "ok")

Readmes(wordCounts) ==
    {<<"absent", 0>>, <<"undecodable", 0>>} \cup {<<"text", w>> : w \in wordCounts}

\* outcome of the two iter_commits calls of gather_info: the first may raise
\* (no origin/<branch>), or it returns and the second raises, or both return
Comparisons ==
    {<<"behind_raises", 0, 0>>}
    \cup {<<"ahead_raises", b, 0>> : b \in 0..MaxCount}
    \cup {<<"ok", b, a>> : b \in 0..MaxCount, a \in 0..MaxCount}

Histories == {"ok", "list_raises", "first_raises"}

CommitDirs(ages, wordCounts, dirties, detacheds, cmps, hists) ==
    {Dir("commits", d, y, t, c[1], c[2], c[3], r[1], r[2], h) :
        d \in detacheds, y \in dirties, t \in ages, c \in cmps,
        r \in Readmes(wordCounts), h \in hists}

UnbornDirs(wordCounts) ==
    {Dir("unborn", FALSE, FALSE, 0, "ok", 0, 0, r[1], r[2], "ok") : r \in Readmes(wordCounts)}

OtherDirs == {PlainDir(k) : k \in {"nomarker", "notrepo", "broken", "bare"}}

(***************************************************************************)
(* GitProject                                                               *)
(***************************************************************************)
Raise(e) == [raised |-> e]

\* (datetime.now() - datetime.fromtimestamp(t)).days: timedelta.days is the floor
DaysSince(age) == age \div TicksPerDay

analyze_readme_uncapped(d) ==
    IF d.readme = "absent" THEN [raised |-> "none", value |-> 0]
    ELSE IF d.readme = "undecodable" THEN Raise("UnicodeDecodeError")
    ELSE [raised |-> "none", value |-> d.words \div WordsPerPoint]

analyze_readme(d) ==
    IF d.readme = "absent" THEN [raised |-> "none", value |-> 0]
    ELSE IF d.readme = "undecodable" THEN Raise("UnicodeDecodeError")
    ELSE [raised |-> "none", value |-> Min(ScoreCap, d.words \div WordsPerPoint)]

\* days_since_last_commit as the try block of calculate_progress leaves it:
\* list(iter_commits()) may raise, or the first commit's date at line 89; the
\* assignment of line 92 is the block's last statement.  HEAD is valid here,
\* so the list of commits is never empty.
days_since_last_commit_last_first(d) ==
    IF d.hist = "list_raises" THEN DefaultDays ELSE DaysSince(d.tipAge)

days_since_last_commit(d) ==
    IF d.hist = "ok" THEN DaysSince(d.tipAge) ELSE DefaultDays

age_factor_unscaled(days) == Min(AgeCap, days)

age_factor(days) == Min(AgeCap, days * AgeWeight)

\* 2 * (readme_score * 0.5 + age_factor * 0.5)
calculate_progress(d, readme_score) ==
    readme_score + age_factor(days_since_last_commit(d))

compare_keep_behind(d) ==
    IF d.cmp = "ok" THEN [raised |-> "none", behind |-> d.behind, ahead |-> d.ahead]
    ELSE [raised |-> "none", behind |-> d.behind, ahead |-> 0]

\* the try/except around the two counts: the bare except catches whatever either
\* iter_commits raises and rebinds both names
compare(d) ==
    IF d.cmp = "ok" THEN [raised |-> "none", behind |-> d.behind, ahead |-> d.ahead]
    ELSE [raised |-> "none", behind |-> 0, ahead |-> 0]

UnbornInfo ==
    [raised |-> "none",
     status |-> [active_branch |-> "-", is_dirty |-> FALSE, last_commit |-> None,
                 commits_behind |-> 0, commits_ahead |-> 0],
     readme_score |-> 0, progress2 |-> 0]

\* gather_info past the unborn test.  str(repo.active_branch) raises TypeError
\* on a detached HEAD.  last_commit stands for the tip commit's datetime and
\* is kept as its distance from the clock.
CommitInfo(d) ==
    IF d.detached THEN Raise("TypeError")
    ELSE LET c == compare(d)
             r == analyze_readme(d)
         IN  IF c.raised # "none" THEN Raise(c.raised)
             ELSE IF r.raised # "none" THEN Raise(r.raised)
             ELSE [raised |-> "none",
                   status |-> [active_branch |-> "main", is_dirty |-> d.dirty,
                               last_commit |-> Some(d.tipAge),
                               commits_behind |-> c.behind, commits_ahead |-> c.ahead],
                   readme_score |-> r.value,
                   progress2 |-> calculate_progress(d, r.value)]

gather_info_no_return(d) == CommitInfo(d)

gather_info(d) ==
    IF d.kind = "unborn" THEN UnbornInfo ELSE CommitInfo(d)

NewProject(path) ==
    [path |-> path, repo |-> "None", status |-> EmptyStatus, progress2 |-> 0, readme_score |-> 0]

\* Repo(path) raises InvalidGitRepositoryError ("notrepo"), raises something
\* else ("broken"), or returns; self.repo is bound before the bare test.
GitProject(path, d) ==
    LET p == NewProject(path) IN
    CASE d.kind = "notrepo" -> [raised |-> "none", project |-> p]
      [] d.kind = "broken"  -> Raise("NoSuchPathError")
      [] d.kind = "bare"    -> [raised |-> "none", project |-> [p EXCEPT !.repo = "bare"]]
      [] OTHER ->
            LET g == gather_info(d) IN
            IF g.raised # "none" THEN Raise(g.raised)
            ELSE [raised |-> "none",
                  project |-> [p EXCEPT !.repo = "worktree", !.status = g.status,
                                        !.progress2 = g.progress2,
                                        !.readme_score = g.readme_score]]

(***************************************************************************)
(* GitScope                                                                 *)
(***************************************************************************)
\* the loop of scan_projects from the i-th directory on, acc being self.projects;
\* base_dir.rglob(".git") yields only the directories that hold a .git entry
RECURSIVE ScanFrom(_, _, _)
ScanFrom(t, i, acc) ==
    IF i > Len(t) THEN [raised |-> "none", projects |-> acc]
    ELSE IF t[i].kind = "nomarker" THEN ScanFrom(t, i + 1, acc)
    ELSE LET g == GitProject(i, t[i]) IN
         IF g.raised # "none" THEN [raised |-> g.raised, projects |-> acc]
         ELSE ScanFrom(t, i + 1,
                       IF g.project.repo # "None" THEN Append(acc, g.project) ELSE acc)

scan_projects_no_clear(t, old) == ScanFrom(t, 1, old)

scan_projects(t, old) == ScanFrom(t, 1, << >>)

display_dashboard(ps) ==
    IF ps = << >> THEN [raised |-> "none", printed |-> "no_projects"]
    ELSE IF \E i \in 1..Len(ps) : ~(StatusKeys \subseteq DOMAIN ps[i].status)
         THEN Raise("KeyError")
         ELSE [raised |-> "none", printed |-> "table"]

(***************************************************************************)
(* Inputs                                                                   *)
(***************************************************************************)
InSync == {<<"ok", 0, 0>>}

ScanDirs ==
    OtherDirs \cup {PlainDir("unborn")}
    \cup CommitDirs({0}, {}, {FALSE}, BOOLEAN, InSync, {"ok"})

Trees == UNION {[1..n -> ScanDirs] : n \in 0..MaxRepos}

ExtractAges == (0 - FutureTicks)..(MaxAgeDays * TicksPerDay)

ExtractWords ==
    (0..SmallWords)
    \cup {ScoreCap * WordsPerPoint - 1, ScoreCap * WordsPerPoint, 2 * ScoreCap * WordsPerPoint}

RecentAges == (0 - FutureTicks)..TicksPerDay

ExtractDirs ==
    OtherDirs \cup UnbornDirs(ExtractWords)
    \cup CommitDirs(ExtractAges, ExtractWords, {FALSE}, {FALSE}, InSync, Histories)
    \cup CommitDirs(RecentAges, ExtractWords, BOOLEAN, {FALSE}, Comparisons, Histories)
    \cup CommitDirs({0}, {0}, {FALSE}, {TRUE}, InSync, {"ok"})

ReadmePairs ==
    {<<a, b>> : a \in {<<"absent", 0>>}, b \in Readmes(0..MaxGap) \ {<<"undecodable", 0>>}}
    \cup {<<<<"text", w>>, <<"text", w + g>>>> : w \in 0..MaxWords, g \in 0..MaxGap}

ReadmeDir(r) == [PlainDir("commits") EXCEPT !.readme = r[1], !.words = r[2]]

Pending == [raised |-> "pending"]

(***************************************************************************)
(* interactive_menu                                                         *)
(***************************************************************************)
Init ==
    /\ tree = << >>
    /\ projects = << >>
    /\ pc = "menu"
    /\ out = "none"
    /\ err = "none"
    /\ scans = 0
    /\ cand = PlainDir("nomarker")
    /\ rec = Pending
    /\ readmes = << >>
    /\ scores = << >>

harness == <<cand, rec, readmes, scores>>

\* choice '1': scan_projects, then display_dashboard
ChooseScan ==
    /\ pc = "menu"
    /\ scans < MaxScans
    /\ scans' = scans + 1
    /\ \E t \in Trees :
        LET s == scan_projects(t, projects)
            shown == display_dashboard(s.projects)
        IN  /\ tree' = t
            /\ projects' = s.projects
            /\ IF s.raised # "none"
               THEN pc' = "crashed" /\ err' = s.raised /\ out' = "scanning"
               ELSE IF shown.raised # "none"
               THEN pc' = "crashed" /\ err' = shown.raised /\ out' = "done"
               ELSE pc' = "menu" /\ err' = "none" /\ out' = shown.printed
    /\ UNCHANGED harness

\* choice '2'
ChooseHelp ==
    /\ pc = "menu"
    /\ out' = "help"
    /\ UNCHANGED <<tree, projects, pc, err, scans>>
    /\ UNCHANGED harness

\* choice '3'
ChooseExit ==
    /\ pc = "menu"
    /\ pc' = "exited"
    /\ out' = "bye"
    /\ UNCHANGED <<tree, projects, err, scans>>
    /\ UNCHANGED harness

\* any other input
ChooseInvalid ==
    /\ pc = "menu"
    /\ out' = "invalid"
    /\ UNCHANGED <<tree, projects, pc, err, scans>>
    /\ UNCHANGED harness

Next == ChooseScan \/ ChooseHelp \/ ChooseExit \/ ChooseInvalid

Spec == Init /\ [][Next]_vars

(***************************************************************************)
(* GitProject(path) on one directory                                        *)
(***************************************************************************)
InitExtract ==
    /\ tree = << >>
    /\ projects = << >>
    /\ pc = "extract"
    /\ out = "none"
    /\ err = "none"
    /\ scans = 0
    /\ cand \in ExtractDirs
    /\ rec = Pending
    /\ readmes = << >>
    /\ scores = << >>

Extract ==
    /\ pc = "extract"
    /\ rec = Pending
    /\ cand.kind # "nomarker"
    /\ rec' = GitProject(1, cand)
    /\ UNCHANGED <<tree, projects, pc, out, err, scans, cand, readmes, scores>>

NextExtract == Extract

SpecExtract == InitExtract /\ [][NextExtract]_vars

(***************************************************************************)
(* analyze_readme on two READMEs                                            *)
(***************************************************************************)
InitReadme ==
    /\ tree = << >>
    /\ projects = << >>
    /\ pc = "readme"
    /\ out = "none"
    /\ err = "none"
    /\ scans = 0
    /\ cand = PlainDir("nomarker")
    /\ rec = Pending
    /\ readmes \in ReadmePairs
    /\ scores = << >>

Analyze ==
    /\ pc = "readme"
    /\ scores = << >>
    /\ scores' = <<analyze_readme(ReadmeDir(readmes[1])).value,
                   analyze_readme(ReadmeDir(readmes[2])).value>>
    /\ UNCHANGED <<tree, projects, pc, out, err, scans, cand, rec, readmes>>

NextReadme == Analyze

SpecReadme == InitReadme /\ [][NextReadme]_vars

(***************************************************************************)
(* Properties of the scan (checked under Spec)                              *)
(***************************************************************************)
Scanned == scans > 0

\* the latest scan_projects call ended in an exception
ScanRaised == pc = "crashed" /\ out = "scanning"

\* a directory that GitProject turns into a record with a full status
Extractable(d) ==
    \/ d.kind = "unborn"
    \/ d.kind = "commits" /\ ~d.detached /\ d.readme # "undecodable"

HasProject(i) == \E j \in 1..Len(projects) : projects[j].path = i

\* C1: an extraction failure for one candidate never aborts the scan of the
\* others: no error leaves scan_projects, and every valid candidate found
\* under the base directory has its record in the result.
C1_FailuresIsolated ==
    Scanned =>
        /\ ~ScanRaised
        /\ \A i \in 1..Len(tree) : Extractable(tree[i]) => HasProject(i)

\* C2: after scan_projects no element of projects is a GitProject whose
\* repository is bare; one bare and one normal repository give a result of
\* length 1.
C2_BareExcluded ==
    Scanned =>
        /\ \A j \in 1..Len(projects) : projects[j].repo # "bare"
        /\ (/\ Len(tree) = 2
            /\ \E i \in 1..2 : tree[i].kind = "bare"
            /\ \E i \in 1..2 : Extractable(tree[i]))
           => Len(projects) = 1

\* the index of the first directory whose extraction raises, Len(t) + 1 if none does
FirstRaise(t) ==
    LET bad == {i \in 1..Len(t) : t[i].kind # "nomarker" /\ GitProject(i, t[i]).raised # "none"}
    IN  IF bad = {} THEN Len(t) + 1 ELSE CHOOSE i \in bad : \A k \in bad : i <= k

\* the records one scan of t builds, in order: one per marked directory it
\* got through, kept when its repo is set
BuiltBy(t) ==
    LET n == FirstRaise(t) - 1
        made == [i \in 1..n |-> IF t[i].kind = "nomarker" THEN NewProject(i)
                                ELSE GitProject(i, t[i]).project]
    IN  SelectSeq(made, LAMBDA p : p.repo # "None")

\* C3: whatever menu actions came before, projects holds exactly the records
\* built by the most recent scan, none carried over or duplicated from an
\* earlier scan.
C3_FreshCollection ==
    /\ projects = BuiltBy(tree)
    /\ \A j, k \in 1..Len(projects) : projects[j].path = projects[k].path => j = k

\* a second scan over a tree that differs from what projects held before,
\* followed by another menu action
C3_Witness ==
    /\ scans >= 2
    /\ pc = "menu"
    /\ out = "help"
    /\ Len(tree) = 2
    /\ Len(projects) = 1

\* C9: every record left in projects has all five status fields, so
\* display_dashboard never reads a missing one.
C9_FullStatus ==
    /\ \A j \in 1..Len(projects) : DOMAIN projects[j].status = StatusKeys
    /\ err # "KeyError"

(***************************************************************************)
(* Properties of GitProject(path) (checked under SpecExtract)               *)
(***************************************************************************)
Extracted == rec # Pending

Returned == Extracted /\ rec.raised = "none"

\* C4: a non-bare repository with no commits gets active_branch "-", not
\* dirty, no last commit, 0 ahead and behind, readme_score 0 and progress 0,
\* and nothing else runs, whatever README.md holds.
C4_UnbornRecord ==
    (Extracted /\ cand.kind = "unborn") =>
        /\ rec.raised = "none"
        /\ rec.project.repo = "worktree"
        /\ DOMAIN rec.project.status = StatusKeys
        /\ rec.project.status.active_branch = "-"
        /\ rec.project.status.is_dirty = FALSE
        /\ rec.project.status.last_commit = None
        /\ rec.project.status.commits_ahead = 0
        /\ rec.project.status.commits_behind = 0
        /\ rec.project.readme_score = 0
        /\ rec.project.progress2 = 0

\* an unborn repository whose README.md would score 100 has been extracted
C4_Witness ==
    /\ Extracted
    /\ cand.kind = "unborn"
    /\ cand.readme = "text"
    /\ cand.words >= ScoreCap * WordsPerPoint
    /\ rec.project.readme_score = 0

\* C5: with at least one commit, a failing ahead/behind comparison is
\* swallowed: no error of it reaches the caller, both counts are 0 together,
\* the README score and the progress are still computed; and the counts of
\* every record are >= 0.
C5_ComparisonSwallowed ==
    /\ (Extracted /\ cand.kind = "commits" /\ ~cand.detached /\ cand.cmp # "ok") =>
          /\ rec.raised # "GitCommandError"
          /\ rec.raised = "none" <=> cand.readme # "undecodable"
          /\ rec.raised = "none" =>
                /\ rec.project.status.commits_behind = 0
                /\ rec.project.status.commits_ahead = 0
                /\ rec.project.readme_score = analyze_readme(cand).value
                /\ rec.project.progress2 =
                      calculate_progress(cand, rec.project.readme_score)
    /\ (Returned /\ DOMAIN rec.project.status = StatusKeys) =>
          /\ rec.project.status.commits_behind >= 0
          /\ rec.project.status.commits_ahead >= 0

\* the behind count was obtained, the ahead count raised, and the record
\* still carries a README score
C5_Witness ==
    /\ Returned
    /\ cand.cmp = "ahead_raises"
    /\ cand.behind > 0
    /\ rec.project.status.commits_behind = 0
    /\ rec.project.readme_score > 0

\* the whole days between the clock and a timestamp age ticks back
IsDays(n, age) == n * TicksPerDay <= age /\ age < (n + 1) * TicksPerDay

DayRange == (0 - FutureTicks - 1)..(MaxAgeDays + 1)

Scored == Returned /\ cand.kind = "commits"

\* C6: progress is the midpoint of readme_score and age_factor and lies in
\* [0, 100], whatever the README word count and the tip commit's timestamp,
\* a timestamp later than the clock included.
C6_ProgressInRange ==
    Scored =>
        /\ \E af \in 0..AgeCap : rec.project.progress2 = rec.project.readme_score + af
        /\ rec.project.progress2 >= 0
        /\ rec.project.progress2 <= 2 * ScoreCap

\* C7: age_factor is 2 * days below 50 days and 100 from 50 days on, days
\* being the whole days since the tip commit; it is 0 for a tip commit of
\* less than a day ago; no README and a 100 days old commit score 0, 100, 50.
C7_AgeFactor ==
    (Scored /\ cand.hist = "ok") =>
        /\ \A n \in DayRange : IsDays(n, cand.tipAge) =>
              rec.project.progress2 - rec.project.readme_score
                  = IF n < 50 THEN 2 * n ELSE 100
        /\ IsDays(0, cand.tipAge) =>
              rec.project.progress2 = rec.project.readme_score
        /\ (cand.readme = "absent" /\ IsDays(100, cand.tipAge)) =>
              rec.project.readme_score = 0 /\ rec.project.progress2 = 2 * 50

\* no README and a tip commit 100 days old
C7_Witness ==
    /\ Scored
    /\ cand.hist = "ok"
    /\ cand.readme = "absent"
    /\ IsDays(100, cand.tipAge)
    /\ rec.project.progress2 = 2 * 50

\* C10: an error while listing commits in calculate_progress is swallowed
\* wherever it occurs: days_since_last_commit stays 1, age_factor is 2 and
\* progress is readme_score * 0.5 + 1.
C10_HistoryFailure ==
    (Extracted /\ cand.kind = "commits" /\ ~cand.detached
        /\ cand.readme # "undecodable" /\ cand.hist # "ok") =>
        /\ rec.raised = "none"
        /\ rec.project.progress2 = rec.project.readme_score + 2

\* the error came after the list of commits was read, for a tip commit that
\* is not one day old
C10_Witness ==
    /\ Returned
    /\ cand.hist = "first_raises"
    /\ IsDays(100, cand.tipAge)
    /\ rec.project.readme_score = ScoreCap
    /\ rec.project.progress2 = ScoreCap + 2

(***************************************************************************)
(* Properties of analyze_readme (checked under SpecReadme)                  *)
(***************************************************************************)
Analyzed == scores # << >>

ScoreIs(r, v) ==
    /\ v \in 0..100
    /\ r[1] = "absent" => v = 0
    /\ (r[1] = "text" /\ r[2] < 1000) => 10 * v <= r[2] /\ r[2] < 10 * (v + 1)
    /\ (r[1] = "text" /\ r[2] >= 1000) => v = 100

\* C8: analyze_readme is 0 without README.md and min(100, words // 10) with
\* it: in 0..100, non-decreasing in the word count, 100 from 1000 words on.
C8_ReadmeScore ==
    Analyzed =>
        /\ ScoreIs(readmes[1], scores[1])
        /\ ScoreIs(readmes[2], scores[2])
        /\ readmes[1][2] <= readmes[2][2] => scores[1] <= scores[2]

\* a README.md one word short of saturation next to one beyond it
C8_Witness ==
    /\ Analyzed
    /\ readmes[1] = <<"text", 999>>
    /\ readmes[2][2] > 1000
    /\ scores = <<99, 100>>

====
